---- MODULE Spec2Model ----
(***************************************************************************)
(* Model of neurokit2/signal/signal_timefrequency.py:                      *)
(*   smooth_pseudo_wvd   - the SPWVD kernel evaluator (index arithmetic,   *)
(*                         window construction, kernel stores);            *)
(*   signal_timefrequency, short_term_ft, continuous_wt - the STFT / CWT   *)
(*                         dispatch.                                       *)
(* Sample values are not modelled: a kernel cell holds the symbolic term   *)
(* that was stored in it (which indices of which array it was built from). *)
(* An index array built by np.arange is a contiguous range and is held as  *)
(* the record [lo, hi]; adding or subtracting it from a scalar gives a     *)
(* contiguous range again, which is exact.                                 *)
(***************************************************************************)
EXTENDS Integers, Sequences, FiniteSets, TLC

VARIABLES
    pc,             \* position of the call: "call", "loop", "done", "error", ...
    args,           \* the arguments of the call (a record, one field per parameter)
    error,          \* the exception that ended the call, or "none"
    freq_window,    \* len(freq_window), -1 before it is built
    time_window,    \* len(time_window), -1 before it is built
    todo,           \* column indices of time_array not yet evaluated
    pwvd,           \* kernel: column index -> (stored row -> term); other cells are 0
    acc,            \* the array accesses of the column evaluated last
    min_frequency,  \* signal_timefrequency: local after sanitising
    max_frequency,  \* signal_timefrequency: local after sanitising
    nperseg,        \* signal_timefrequency: segment length, -1 when not computed
    cola,           \* "unchecked", "met" or "violated"
    frequency,      \* signal_timefrequency: the frequency axis computed, or NoAxis
    calls,          \* the primitives invoked so far, in order
    result          \* the returned triple, or NoResult

vars == <<pc, args, error, freq_window, time_window, todo, pwvd, acc,
          min_frequency, max_frequency, nperseg, cola, frequency, calls, result>>

----------------------------------------------------------------------------
(* Bounds of the model *)

MaxN == 7           \* small signal lengths 1..MaxN are explored with every argument shape
SmallBins == 8      \* an explicit nfreqbin used with the small signal lengths

(* Program constants *)

DefaultNfreqbin == 300

(* Signal lengths and segment steps named by the boundary-safety property *)
ClaimLengths == {5, 6, 50, 4096}
ClaimSteps(N) == {1, 3, N}

----------------------------------------------------------------------------
(* Python values *)

None == [kind |-> "None", val |-> <<>>]
IntArg(n) == [kind |-> "int", val |-> <<n>>]
ArrayArg(s) == [kind |-> "array", val |-> s]

Min2(x, y) == IF x <= y THEN x ELSE y
Max2(x, y) == IF x >= y THEN x ELSE y
MinOf4(a, b, c, d) == Min2(Min2(a, b), Min2(c, d))
MaxOfSet(S) == CHOOSE x \in S : \A y \in S : y <= x
MinOfSet(S) == CHOOSE x \in S : \A y \in S : x <= y

(* np.round(N / 2.0): halves round to the even neighbour *)
RoundHalf(N) ==
    IF N % 2 = 0 THEN N \div 2
    ELSE LET k == N \div 2 IN IF k % 2 = 0 THEN k ELSE k + 1

(* np.arange(start, stop, dtype=int) as the range [start, stop - 1] *)
Arange(start, stop) == [lo |-> start, hi |-> stop - 1]
Single(x) == [lo |-> x, hi |-> x]
IsEmpty(iv) == iv.hi < iv.lo
Plus(c, iv) == [lo |-> c + iv.lo, hi |-> c + iv.hi]       \* c + tau
Minus(c, iv) == [lo |-> c - iv.hi, hi |-> c - iv.lo]      \* c - tau

(* numpy indexing of an array of length n: -n..n-1 are accepted (negative
   indices count from the end), anything else raises IndexError *)
Accepted(iv, n) == IsEmpty(iv) \/ (iv.lo >= -n /\ iv.hi < n)
Wrap(r, n) == IF r < 0 THEN r + n ELSE r

----------------------------------------------------------------------------
(* smooth_pseudo_wvd: parameters *)

Nfreqbin(a) == IF a.nfreqbin = None THEN DefaultNfreqbin ELSE a.nfreqbin.val[1]

(* the analytic signal is built from the zero-padded signal of length 2N *)
SignalLen(N) == 2 * N

(* default window length: floor(N / q), plus one when even *)
DefaultLength(N, q) ==
    LET l == N \div q IN IF l % 2 = 0 THEN l + 1 ELSE l

(* the check applied to an explicit window length: len(x) % 2 == 0 *)
LengthCheck(arg) ==
    IF arg.kind = "None" THEN "none"
    ELSE IF arg.kind = "int" THEN "TypeError"            \* len() of an int
    ELSE IF Len(arg.val) % 2 = 0 THEN "ValueError"
    ELSE "none"

(* int(x) in the window constructor: only a size-1 array converts *)
IntOf(arg) ==
    IF arg.kind = "array" /\ Len(arg.val) # 1
    THEN [err |-> "TypeError", val |-> -1]
    ELSE [err |-> "none", val |-> arg.val[1]]

WindowLength(N, arg, q) ==
    IF arg.kind = "None" THEN [err |-> "none", val |-> DefaultLength(N, q)]
    ELSE IntOf(arg)

SupportedMethods == {"hamming", "gaussian"}

(* the outcome of lines 230-260: the first exception raised, or the two
   window lengths *)
Windows(a) ==
    LET fc == LengthCheck(a.freq_length)
        tc == LengthCheck(a.time_length)
        fl == WindowLength(a.N, a.freq_length, 4)
        tl == WindowLength(a.N, a.time_length, 10)
    IN  IF fc # "none" THEN [err |-> fc, freq |-> -1, time |-> -1]
        ELSE IF tc # "none" THEN [err |-> tc, freq |-> -1, time |-> -1]
        ELSE IF a.window_method \notin SupportedMethods
             THEN [err |-> "UnboundLocalError", freq |-> -1, time |-> -1]
        ELSE IF fl.err # "none" THEN [err |-> fl.err, freq |-> -1, time |-> -1]
        ELSE IF tl.err # "none" THEN [err |-> tl.err, freq |-> fl.val, time |-> -1]
        ELSE [err |-> "none", freq |-> fl.val, time |-> tl.val]

Midpt(len) == (len - 1) \div 2

(* time_array = np.arange(0, N, segment_step) *)
NumColumns(a) == (a.N + a.segment_step - 1) \div a.segment_step
TimeAt(a, i) == i * a.segment_step

----------------------------------------------------------------------------
(* smooth_pseudo_wvd: one column of the kernel (the body of the loop over
   time_array, lines 269-317) *)

TauMax(a, fl, tl, t) ==
    MinOf4(t + Midpt(tl) - 1,
           a.N - t + Midpt(tl),
           RoundHalf(a.N) - 1,
           Midpt(fl))

(* number of iterations of `for m in range(int(tau_max))` *)
NumLags(a, fl, tl, t) == Max2(TauMax(a, fl, tl, t), 0)

(* the time-lag list of the zero-frequency term *)
ZeroTau(a, tl, t) ==
    Arange(-Min2(Midpt(tl), a.N - t), Min2(Midpt(tl), t - 1) + 1)

(* the time-lag list of lag m, and of the last term with m = round(N / 2) *)
LagTau(a, tl, t, m) ==
    Arange(-Min2(Midpt(tl), a.N - t - m), Min2(Midpt(tl), t - m - 1) + 1)

(* the condition guarding the last term of a column *)
NyquistCond(a, fl, t) ==
    LET m == RoundHalf(a.N)
    IN  t <= a.N - m /\ t >= m + 1 /\ m <= Midpt(fl)

Access(col, pos, arr, term, m, side, idx, isfloat) ==
    [col |-> col, pos |-> pos, arr |-> arr, term |-> term, m |-> m, side |-> side,
     idx |-> idx, isfloat |-> isfloat]

Term(kind, g2, s1, s2, fw, fw2) ==
    [kind |-> kind, g2 |-> g2, s1 |-> s1, s2 |-> s2, fw |-> fw, fw2 |-> fw2]

(* frequency-window index applied to the positive and negative half of lag m *)
FreqIndexPos(fl, m) == Midpt(fl) + m + 1
FreqIndexNeg(fl, m) == Midpt(fl) - m + 1

(* kernel rows of the positive and negative half of lag m *)
RowPos(m) == m + 1
RowNeg(a, m) == Nfreqbin(a) - m - 1

(* signal indices of the two factors of lag m; the last term of a column
   uses its own offsets *)
SignalPt1OffByOne(t, m, tau) == Minus(t + m, tau)
SignalPt1(t, m, tau) == Minus(t + m - 1, tau)
SignalPt2(t, m, tau) == Minus(t - m - 1, tau)
NyquistPt1(t, m, tau) == Minus(t + m, tau)
NyquistPt2(t, m, tau) == Minus(t - m, tau)

(* The array accesses of column i in program order.  Positions 1..3 are the
   zero-frequency term, 7 positions follow for each lag m, and 6 for the last
   term when its condition holds. *)
NumAccesses(a, fl, tl, i) ==
    LET t == TimeAt(a, i)
    IN  3 + 7 * NumLags(a, fl, tl, t) + (IF NyquistCond(a, fl, t) THEN 6 ELSE 0)

AccessAt(a, fl, tl, i, k) ==
    LET t == TimeAt(a, i)
        mt == Midpt(tl)
        K == NumLags(a, fl, tl, t)
    IN  IF k <= 3 THEN
            LET tau == ZeroTau(a, tl, t)
            IN  CASE k = 1 -> Access(i, k, "time_window", "zero", 0, "none", Plus(mt, tau), FALSE)
                  [] k = 2 -> Access(i, k, "signal", "zero", 0, "none", Minus(t - 1, tau), FALSE)
                  [] OTHER -> Access(i, k, "pwvd", "zero", 0, "none", Single(0), FALSE)
        ELSE IF k <= 3 + 7 * K THEN
            LET m == (k - 4) \div 7
                s == (k - 4) % 7
                tau == LagTau(a, tl, t, m)
            IN  CASE s = 0 -> Access(i, k, "time_window", "lag", m, "none", Plus(mt, tau), FALSE)
                  [] s = 1 -> Access(i, k, "signal", "lag", m, "pt1", SignalPt1(t, m, tau), FALSE)
                  [] s = 2 -> Access(i, k, "signal", "lag", m, "pt2", SignalPt2(t, m, tau), FALSE)
                  [] s = 3 -> Access(i, k, "freq_window", "lag", m, "pos", Single(FreqIndexPos(fl, m)), FALSE)
                  [] s = 4 -> Access(i, k, "pwvd", "lag", m, "pos", Single(RowPos(m)), FALSE)
                  [] s = 5 -> Access(i, k, "freq_window", "lag", m, "neg", Single(FreqIndexNeg(fl, m)), FALSE)
                  [] OTHER -> Access(i, k, "pwvd", "lag", m, "neg", Single(RowNeg(a, m)), FALSE)
        ELSE
            LET m == RoundHalf(a.N)
                s == k - (3 + 7 * K)
                tau == LagTau(a, tl, t, m)
            IN  CASE s = 1 -> Access(i, k, "time_window", "nyquist", m, "none", Plus(mt + 1, tau), FALSE)
                  [] s = 2 -> Access(i, k, "signal", "nyquist", m, "pt1", NyquistPt1(t, m, tau), FALSE)
                  [] s = 3 -> Access(i, k, "signal", "nyquist", m, "pt2", NyquistPt2(t, m, tau), FALSE)
                  [] s = 4 -> Access(i, k, "freq_window", "nyquist", m, "pos", Single(FreqIndexPos(fl, m)), TRUE)
                  [] s = 5 -> Access(i, k, "freq_window", "nyquist", m, "neg", Single(FreqIndexNeg(fl, m)), TRUE)
                  [] OTHER -> Access(i, k, "pwvd", "nyquist", m, "none", Single(m), TRUE)

(* the length of the array an access indexes *)
ArrayLen(a, fl, tl, arr) ==
    CASE arr = "time_window" -> tl
      [] arr = "freq_window" -> fl
      [] arr = "signal" -> SignalLen(a.N)
      [] OTHER -> Nfreqbin(a)

(* an access raises IndexError when an index is outside the array, or when
   the index is a float (m = np.round(N / 2.0)) and the numpy build refuses
   float indices *)
Raises(a, fl, tl, x) ==
    \/ ~Accepted(x.idx, ArrayLen(a, fl, tl, x.arr))
    \/ x.isfloat /\ a.float_index = "IndexError"

(* the term a store at position k puts in the kernel *)
StoredTerm(a, fl, tl, i, k) ==
    LET x == AccessAt(a, fl, tl, i, k)
        t == TimeAt(a, i)
        mt == Midpt(tl)
    IN  CASE x.term = "zero" ->
                LET tau == ZeroTau(a, tl, t)
                IN  Term("zero", Plus(mt, tau), Minus(t - 1, tau), Minus(t - 1, tau), -1, -1)
          [] x.term = "lag" /\ x.side = "pos" ->
                LET tau == LagTau(a, tl, t, x.m)
                IN  Term("pos", Plus(mt, tau), SignalPt1(t, x.m, tau), SignalPt2(t, x.m, tau),
                         FreqIndexPos(fl, x.m), -1)
          [] x.term = "lag" /\ x.side = "neg" ->
                LET tau == LagTau(a, tl, t, x.m)
                IN  Term("neg", Plus(mt, tau), SignalPt2(t, x.m, tau), SignalPt1(t, x.m, tau),
                         FreqIndexNeg(fl, x.m), -1)
          [] OTHER ->
                LET tau == LagTau(a, tl, t, x.m)
                IN  Term("nyquist", Plus(mt + 1, tau), NyquistPt1(t, x.m, tau),
                         NyquistPt2(t, x.m, tau), FreqIndexPos(fl, x.m), FreqIndexNeg(fl, x.m))

(* positions of the stores that can address row r of the column *)
StoresTo(a, fl, tl, i, r, last) ==
    LET nfb == Nfreqbin(a)
        cand == {3, 4 + 7 * (r - 1) + 4, 4 + 7 * (nfb - 1 - r) + 6,
                 4 + 7 * (2 * nfb - 1 - r) + 6, NumAccesses(a, fl, tl, i)}
    IN  {k \in cand :
            /\ k >= 1 /\ k <= last
            /\ LET x == AccessAt(a, fl, tl, i, k)
               IN  /\ x.arr = "pwvd"
                   /\ ~Raises(a, fl, tl, x)
                   /\ Wrap(x.idx.lo, nfb) = r}

(* Column i evaluated as the loop body does: the accesses up to and including
   the first one that raises, and the column as the stores before it leave
   it (a later store to a row replaces an earlier one). *)
EvalColumn(a, fl, tl, i) ==
    LET n == NumAccesses(a, fl, tl, i)
        bad == {k \in 1..n : Raises(a, fl, tl, AccessAt(a, fl, tl, i, k))}
        last == IF bad = {} THEN n ELSE MinOfSet(bad)
        done == {AccessAt(a, fl, tl, i, k) : k \in 1..last}
        rows == {Wrap(x.idx.lo, Nfreqbin(a)) :
                    x \in {y \in done : y.arr = "pwvd" /\ ~Raises(a, fl, tl, y)}}
    IN  [err |-> IF bad = {} THEN "none" ELSE "IndexError",
         accesses |-> done,
         column |-> [r \in rows |->
                        StoredTerm(a, fl, tl, i, MaxOfSet(StoresTo(a, fl, tl, i, r, last)))]]

(* pwvd[..., i] = ...: the stores of column i go to column i of the kernel *)
StoreColumnShared(kernel, i, column) == [kernel EXCEPT ![i] = column, ![0] = column]
StoreColumn(kernel, i, column) == [kernel EXCEPT ![i] = column]

----------------------------------------------------------------------------
(* Frequencies are exact fractions n / d in Hz; np.inf is 1 / 0 *)

Frac(n, d) == [n |-> n, d |-> d]
Inf == Frac(1, 0)
FracLeq(x, y) == x.n * y.d <= y.n * x.d

(* an evenly spaced axis of n points from lo to hi *)
Axis(lo, hi, n) == [lo |-> lo, hi |-> hi, n |-> n]
NoAxis == Axis(Frac(0, 1), Frac(0, 1), -1)
NoResult == [frequency |-> NoAxis, tfr |-> "none"]

----------------------------------------------------------------------------
(* smooth_pseudo_wvd: the call *)

EmptyColumn == [r \in {} |-> Term("none", Single(0), Single(0), Single(0), -1, -1)]

SpwvdArgs(N, step, fl, tl, nfb, method, fi) ==
    [fn |-> "smooth_pseudo_wvd", N |-> N, segment_step |-> step,
     freq_length |-> fl, time_length |-> tl, nfreqbin |-> nfb,
     window_method |-> method, float_index |-> fi]

(* calls with the default windows and the signal lengths and steps of the
   boundary-safety property *)
ClaimInputs ==
    {SpwvdArgs(N, step, None, None, None, "hamming", "IndexError") :
        <<N, step>> \in {p \in ClaimLengths \X (1..4096) : p[2] \in ClaimSteps(p[1])}}

(* a long signal, default arguments, a single sampled instant *)
LongLengths == {8192}
LongInputs ==
    {SpwvdArgs(N, N, None, None, None, "hamming", "IndexError") : N \in LongLengths}

FreqArgs == {None, IntArg(5), ArrayArg(<<4>>), ArrayArg(<<5>>), ArrayArg(<<7>>),
             ArrayArg(<<3, 5>>), ArrayArg(<<1, 3, 5>>)}
TimeArgs == {None, IntArg(3), ArrayArg(<<1>>), ArrayArg(<<2>>), ArrayArg(<<3>>),
             ArrayArg(<<3, 3>>)}
FloatIndexModes == {"IndexError", "truncate"}

(* calls on short signals with every shape of window argument *)
SmallInputs ==
    {SpwvdArgs(N, step, fl, tl, nfb, "hamming", fi) :
        <<N, step, fl, tl, nfb, fi>> \in
            {q \in (1..MaxN) \X (1..MaxN) \X FreqArgs \X TimeArgs
                    \X {None, IntArg(SmallBins)} \X FloatIndexModes :
                q[2] \in {1, 2, q[1]}}}
    \cup
    {SpwvdArgs(N, 1, None, None, None, method, "IndexError") :
        <<N, method>> \in (1..MaxN) \X {"gaussian", "hann"}}

InitCommon ==
    /\ pc = "call"
    /\ error = "none"
    /\ freq_window = -1
    /\ time_window = -1
    /\ todo = {}
    /\ pwvd = <<>>
    /\ acc = {}
    /\ min_frequency = Frac(0, 1)
    /\ max_frequency = Frac(0, 1)
    /\ nperseg = -1
    /\ cola = "unchecked"
    /\ frequency = NoAxis
    /\ calls = <<>>
    /\ result = NoResult

Init ==
    /\ args \in ClaimInputs \cup LongInputs \cup SmallInputs
    /\ InitCommon

(* lines 209-266: parameters, windows, time_array and the zeroed kernel *)
CreateWindows ==
    /\ pc = "call"
    /\ args.fn = "smooth_pseudo_wvd"
    /\ LET w == Windows(args)
       IN  /\ freq_window' = w.freq
           /\ time_window' = w.time
           /\ error' = w.err
           /\ IF w.err = "none"
              THEN /\ pc' = "loop"
                   /\ todo' = 0..(NumColumns(args) - 1)
                   /\ pwvd' = [i \in 0..(NumColumns(args) - 1) |-> EmptyColumn]
              ELSE /\ pc' = "error"
                   /\ UNCHANGED <<todo, pwvd>>
    /\ UNCHANGED <<args, acc, min_frequency, max_frequency, nperseg, cola,
                   frequency, calls, result>>

(* lines 269-317 for one i: the column is evaluated and stored; an IndexError
   ends the call *)
EvalAndStore(i) ==
    \E e \in {EvalColumn(args, freq_window, time_window, i)} :
        /\ acc' = e.accesses
        /\ pwvd' = StoreColumn(pwvd, i, e.column)
        /\ todo' = todo \ {i}
        /\ error' = e.err
        /\ pc' = IF e.err = "none" THEN "loop" ELSE "error"
        /\ UNCHANGED <<args, freq_window, time_window, min_frequency,
                       max_frequency, nperseg, cola, frequency, calls, result>>

(* the loop `for i, t in enumerate(time_array)` takes the columns in order *)
Column ==
    /\ pc = "loop"
    /\ todo # {}
    /\ EvalAndStore(MinOfSet(todo))

(* the columns taken in any order (column-wise parallel evaluation) *)
ColumnAny ==
    /\ pc = "loop"
    /\ \E i \in todo : EvalAndStore(i)

(* lines 319-323: the projection on frequency and the returned triple *)
Project ==
    /\ pc = "loop"
    /\ todo = {}
    /\ pc' = "done"
    /\ result' = [frequency |-> Axis(Frac(0, 1),
                                     Frac(Nfreqbin(args) - 1, 2 * args.N),
                                     Nfreqbin(args)),
                  tfr |-> "spwvd"]
    /\ UNCHANGED <<args, error, freq_window, time_window, todo, pwvd, acc,
                   min_frequency, max_frequency, nperseg, cola, frequency, calls>>

Next == CreateWindows \/ Column \/ Project

Spec == Init /\ [][Next]_vars

(* short signals only, columns in any order *)
ParInputs ==
    {a \in SmallInputs :
        /\ a.nfreqbin # None
        /\ a.window_method = "hamming"
        /\ a.freq_length \in {None, ArrayArg(<<5>>), ArrayArg(<<7>>)}
        /\ a.time_length \in {None, ArrayArg(<<3>>)}}

InitPar ==
    /\ args \in ParInputs
    /\ InitCommon

NextPar == CreateWindows \/ ColumnAny \/ Project

SpecPar == InitPar /\ [][NextPar]_vars

----------------------------------------------------------------------------
(* signal_timefrequency, short_term_ft, continuous_wt *)

TfArgs(n, sr, fmin, fmax, method, window, nfb, overlap, show) ==
    [fn |-> "signal_timefrequency", len_signal |-> n, sampling_rate |-> sr,
     min_frequency |-> fmin, max_frequency |-> fmax, method |-> method,
     window |-> window, nfreqbin |-> nfb, overlap |-> overlap, show |-> show]

TfInputs ==
    {TfArgs(n, sr, fmin, fmax, method, window, nfb, overlap, show) :
        <<n, sr, fmin, fmax, method>> \in
            {3000, 30000} \X {10, 100}
                \X {Frac(0, 1), Frac(4, 100), Frac(1, 2)}
                \X {Inf, Frac(1, 2), Frac(40, 1)}
                \X {"stft", "STFT", "cwt", "wavelet", "wvd"},
        <<window, nfb, overlap, show>> \in
            {None, IntArg(2)} \X {None, IntArg(20)}
                \X {None, IntArg(0), IntArg(100), IntArg(6000)} \X BOOLEAN}

(* method.lower() on the method names explored *)
Lower(method) == IF method = "STFT" THEN "stft" ELSE method

(* lines 86-89 *)
SanitizeMin(fmin) == IF fmin = Frac(0, 1) THEN Frac(4, 100) ELSE fmin
SanitizeMax(fmax, sr) == IF fmax = Inf THEN Frac(sr \div 2, 1) ELSE fmax

(* lines 93-97: int(window * sampling_rate), or int((2 / min_frequency) *
   sampling_rate) *)
Nperseg(a, fmin) ==
    IF a.window # None THEN a.window.val[1] * a.sampling_rate
    ELSE (2 * fmin.d * a.sampling_rate) \div fmin.n

(* the nfreqbin that the call of continuous_wt at lines 110-116 passes: the
   keyword is not among the arguments, so the callee sees its default None *)
CwtNfreqbin(a) == None

InitTF ==
    /\ args \in TfInputs
    /\ InitCommon

(* lines 86-116: sanitise the bounds and dispatch on the method *)
Dispatch ==
    /\ pc = "call"
    /\ args.fn = "signal_timefrequency"
    /\ min_frequency' = SanitizeMin(args.min_frequency)
    /\ max_frequency' = SanitizeMax(args.max_frequency, args.sampling_rate)
    /\ IF Lower(args.method) \in {"stft"}
       THEN /\ nperseg' = Nperseg(args, SanitizeMin(args.min_frequency))
            /\ pc' = "short_term_ft"
       ELSE /\ nperseg' = nperseg
            /\ pc' = IF Lower(args.method) \in {"cwt", "wavelet"}
                     THEN "continuous_wt" ELSE "return"
    /\ UNCHANGED <<args, error, freq_window, time_window, todo, pwvd, acc,
                   cola, frequency, calls, result>>

CheckCOLAIgnored ==
    /\ pc = "short_term_ft"
    /\ pc' = "spectrogram"
    /\ IF args.overlap = None \/ nperseg < 1 \/ args.overlap.val[1] >= nperseg
       THEN UNCHANGED <<cola, calls>>
       ELSE /\ calls' = calls \o <<"hann", "check_COLA">>
            /\ \E ok \in BOOLEAN : cola' = IF ok THEN "met" ELSE "violated"
    /\ UNCHANGED <<args, error, freq_window, time_window, todo, pwvd, acc,
                   min_frequency, max_frequency, nperseg, frequency, result>>

(* lines 130-132: the COLA check of an explicit overlap.  check_COLA raises
   ValueError itself when nperseg < 1 or noverlap >= nperseg; otherwise its
   answer for the Hann window is an input of the model. *)
CheckCOLA ==
    /\ pc = "short_term_ft"
    /\ IF args.overlap = None
       THEN /\ pc' = "spectrogram"
            /\ UNCHANGED <<error, cola, calls>>
       ELSE /\ calls' = calls \o <<"hann", "check_COLA">>
            /\ IF nperseg < 1 \/ args.overlap.val[1] >= nperseg
               THEN /\ pc' = "error"
                    /\ error' = "ValueError"
                    /\ cola' = cola
               ELSE \E ok \in BOOLEAN :
                        /\ cola' = IF ok THEN "met" ELSE "violated"
                        /\ pc' = IF ok THEN "spectrogram" ELSE "error"
                        /\ error' = IF ok THEN error ELSE "ValueError"
    /\ UNCHANGED <<args, freq_window, time_window, todo, pwvd, acc,
                   min_frequency, max_frequency, nperseg, frequency, result>>

(* lines 134-144: scipy.signal.spectrogram.  The segment is cut to the signal
   length, noverlap defaults to nperseg // 8, and the frequency axis is
   k * fs / nperseg for k = 0..nperseg // 2. *)
Spectrogram ==
    /\ pc = "spectrogram"
    /\ calls' = Append(calls, "spectrogram")
    /\ LET seg == Min2(nperseg, args.len_signal)
           noverlap == IF args.overlap = None THEN seg \div 8 ELSE args.overlap.val[1]
       IN  IF seg < 1 \/ noverlap >= seg
           THEN /\ pc' = "error"
                /\ error' = "ValueError"
                /\ frequency' = frequency
           ELSE /\ frequency' = Axis(Frac(0, 1),
                                     Frac((seg \div 2) * args.sampling_rate, seg),
                                     seg \div 2 + 1)
                /\ pc' = IF args.show THEN "stft_plot" ELSE "return"
                /\ error' = error
    /\ UNCHANGED <<args, freq_window, time_window, todo, pwvd, acc,
                   min_frequency, max_frequency, nperseg, cola, result>>

(* lines 148-167: the two figures of the STFT *)
StftPlot ==
    /\ pc = "stft_plot"
    /\ calls' = Append(calls, "plot")
    /\ pc' = "return"
    /\ UNCHANGED <<args, error, freq_window, time_window, todo, pwvd, acc,
                   min_frequency, max_frequency, nperseg, cola, frequency, result>>

(* lines 347-358: the frequency axis and the wavelet transform *)
ContinuousWT ==
    /\ pc = "continuous_wt"
    /\ LET nfb == IF CwtNfreqbin(args) = None
                  THEN args.sampling_rate \div 2
                  ELSE CwtNfreqbin(args).val[1]
       IN  frequency' = Axis(min_frequency, max_frequency, nfb)
    /\ calls' = Append(calls, "cwt")
    /\ pc' = IF args.show THEN "cwt_plot" ELSE "return"
    /\ UNCHANGED <<args, error, freq_window, time_window, todo, pwvd, acc,
                   min_frequency, max_frequency, nperseg, cola, result>>

(* lines 361-369: the figure of the CWT *)
CwtPlot ==
    /\ pc = "cwt_plot"
    /\ calls' = Append(calls, "plot")
    /\ pc' = "return"
    /\ UNCHANGED <<args, error, freq_window, time_window, todo, pwvd, acc,
                   min_frequency, max_frequency, nperseg, cola, frequency, result>>

(* line 118: return frequency, time, tfr; the names are unbound when no
   branch of the dispatch ran *)
Return ==
    /\ pc = "return"
    /\ IF frequency = NoAxis
       THEN /\ pc' = "error"
            /\ error' = "UnboundLocalError"
            /\ result' = result
       ELSE /\ pc' = "done"
            /\ error' = error
            /\ result' = [frequency |-> frequency,
                          tfr |-> IF Lower(args.method) = "stft" THEN "stft" ELSE "cwt"]
    /\ UNCHANGED <<args, freq_window, time_window, todo, pwvd, acc,
                   min_frequency, max_frequency, nperseg, cola, frequency, calls>>

NextTF ==
    Dispatch \/ CheckCOLA \/ Spectrogram \/ StftPlot \/ ContinuousWT \/ CwtPlot \/ Return

SpecTF == InitTF /\ [][NextTF]_vars

----------------------------------------------------------------------------
(* Properties *)

Range(f) == {f[x] : x \in DOMAIN f}

(* every index of the range lies in 0..n-1 *)
Within(iv, n) == IsEmpty(iv) \/ (iv.lo >= 0 /\ iv.hi < n)

DefaultWindows == args.freq_length = None /\ args.time_length = None

(* C1: with the default windows, for N in {5, 6, 50, 4096} and segment_step in
   {1, 3, N}, every index used to read the analytic signal (zero-lag term, lag
   terms, last term of the column) lies in [0, N). *)
SignalReadsInRange ==
    (/\ DefaultWindows
     /\ args.N \in ClaimLengths
     /\ args.segment_step \in ClaimSteps(args.N))
    => \A x \in acc : x.arr = "signal" => Within(x.idx, args.N)

(* the last column of a 50-sample signal was evaluated and a lag term read
   the last sample *)
SignalReadsInRangeWitness ==
    /\ DefaultWindows
    /\ args.N = 50
    /\ args.segment_step = 1
    /\ pc = "loop"
    /\ todo = {}
    /\ \E x \in acc : /\ x.arr = "signal" /\ x.term = "lag"
                      /\ x.col = 49 /\ x.idx.hi = 49 /\ x.idx.lo < x.idx.hi

(* the length an explicit window argument asks for, when it names one *)
NamesLength(arg) == arg.kind = "int" \/ (arg.kind = "array" /\ Len(arg.val) = 1)

(* the length a window argument asks for: the default, or the one it names *)
Requested(arg, q) == IF arg = None THEN DefaultLength(args.N, q) ELSE arg.val[1]

(* C2: the smoothing windows always have odd length: the default lengths are
   odd and at least 1, an explicit odd length is accepted and gives a window
   of that length, an explicit even length fails with ValueError. *)
OddWindowLengths ==
    (/\ pc # "call"
     /\ args.window_method \in SupportedMethods
     /\ args.freq_length = None \/ NamesLength(args.freq_length)
     /\ args.time_length = None \/ NamesLength(args.time_length))
    => LET f == Requested(args.freq_length, 4)
           t == Requested(args.time_length, 10)
       IN  /\ args.freq_length = None => (f % 2 = 1 /\ f >= 1)
           /\ args.time_length = None => (t % 2 = 1 /\ t >= 1)
           /\ IF f % 2 = 1 /\ t % 2 = 1
              THEN error = "none" /\ freq_window = f /\ time_window = t
              ELSE error = "ValueError"

(* C3: with sampling_rate = 100 and the default frequency bounds, the
   frequency axis returned for "stft" and for "cwt" has its minimum and its
   maximum within [0.04, 50] Hz. *)
DefaultAxisWithinBounds ==
    (/\ pc = "done"
     /\ args.sampling_rate = 100
     /\ args.min_frequency = Frac(4, 100)
     /\ args.max_frequency = Inf
     /\ Lower(args.method) \in {"stft", "cwt"})
    => /\ FracLeq(Frac(4, 100), result.frequency.lo)
       /\ FracLeq(result.frequency.lo, Frac(50, 1))
       /\ FracLeq(Frac(4, 100), result.frequency.hi)
       /\ FracLeq(result.frequency.hi, Frac(50, 1))

(* C4: an explicit overlap that fails the COLA check ends the STFT call with
   ValueError before the spectrogram, the plot and the return; with overlap
   None the check is skipped and the spectrogram is computed. *)
ColaViolationAborts ==
    /\ cola = "violated" =>
          /\ pc = "error"
          /\ error = "ValueError"
          /\ Range(calls) \cap {"spectrogram", "plot", "cwt"} = {}
          /\ frequency = NoAxis
          /\ result = NoResult
    /\ (/\ Lower(args.method) = "stft"
        /\ args.overlap = None
        /\ pc \notin {"call", "short_term_ft", "spectrogram"})
       => /\ "check_COLA" \notin Range(calls)
          /\ cola = "unchecked"
          /\ "spectrogram" \in Range(calls)

(* the check has failed for an explicit overlap and the call has ended *)
ColaViolationAbortsWitness ==
    /\ cola = "violated"
    /\ args.overlap # None
    /\ pc = "error"
    /\ "check_COLA" \in Range(calls)

(* C5: for "cwt" / "wavelet" with an explicit nfreqbin the returned axis has
   nfreqbin points from min_frequency to max_frequency; with nfreqbin None it
   has sampling_rate // 2 points. *)
CwtAxisHonoursNfreqbin ==
    (pc = "done" /\ Lower(args.method) \in {"cwt", "wavelet"}) =>
        /\ result.frequency.lo = min_frequency
        /\ result.frequency.hi = max_frequency
        /\ result.frequency.n = IF args.nfreqbin = None
                                THEN args.sampling_rate \div 2
                                ELSE args.nfreqbin.val[1]

(* the kernel the sequential loop leaves after its first k columns *)
RECURSIVE SequentialKernel(_)
SequentialKernel(k) ==
    IF k = 0 THEN [i \in 0..(NumColumns(args) - 1) |-> EmptyColumn]
    ELSE StoreColumn(SequentialKernel(k - 1), k - 1,
                     EvalColumn(args, freq_window, time_window, k - 1).column)

KernelRowsInRange ==
    (DefaultWindows /\ args.nfreqbin = None) =>
        \A x \in acc : x.arr = "pwvd" => Within(x.idx, Nfreqbin(args))

(* C8: whenever the last term of a column is computed (odd windows, its
   condition holds), its signal indices lie in [0, N), its window indices lie
   inside the windows, and its value is stored at row round(N / 2). *)
NyquistTermSafe ==
    \A x \in acc :
        (x.term = "nyquist" /\ freq_window % 2 = 1 /\ time_window % 2 = 1) =>
            /\ x.arr = "signal" => Within(x.idx, args.N)
            /\ x.arr = "time_window" => Within(x.idx, time_window)
            /\ x.arr = "freq_window" => Within(x.idx, freq_window)
            /\ x.m \in DOMAIN pwvd[x.col]
            /\ pwvd[x.col][x.m].kind = "nyquist"

(* C9: within a column the rows of the positive offsets lie in the lower half
   and the rows of the negative offsets in the upper half of 0..nfreqbin-1,
   so that no lag term overwrites another (default windows, nfreqbin = 300). *)
LagRowsDisjoint ==
    (DefaultWindows /\ args.nfreqbin = None) =>
        \A x \in acc : (x.arr = "pwvd" /\ x.term = "lag") =>
            /\ x.side = "pos" => (0 <= x.idx.lo /\ 2 * x.idx.lo < Nfreqbin(args))
            /\ x.side = "neg" => (2 * x.idx.lo >= Nfreqbin(args)
                                  /\ x.idx.lo < Nfreqbin(args))
            /\ \A y \in acc : (y.arr = "pwvd" /\ y.term = "lag" /\ y.pos # x.pos)
                                => y.idx # x.idx

(* C10: the frequency-window index of the negative half of a lag is the
   mirror image about midpt_freq of the index of its positive half. *)
FreqWeightsMirrored ==
    \A x, y \in acc :
        (/\ x.arr = "freq_window" /\ y.arr = "freq_window"
         /\ x.term = y.term /\ x.m = y.m
         /\ x.side = "pos" /\ y.side = "neg")
        => y.idx.lo - Midpt(freq_window) = Midpt(freq_window) - x.idx.lo

====
